---- MODULE Spec2Model ----
(***************************************************************************)
(* The i2pptt web wizard (upload -> analyze -> generate) as a state        *)
(* machine: the Step1Upload component (src/unnamed/part_004), the App      *)
(* wizard shell and TabBar (src/web/frontend/src/components/TabBar.jsx)    *)
(* and the part of Step2Analyze that drives the wizard                     *)
(* (src/web/frontend/src/components/Step2Analyze.jsx).                     *)
(*                                                                         *)
(* One action is one run of an event handler or of the continuation of an  *)
(* async function after an await, together with the React effects that    *)
(* the resulting render commits.  HTTP requests in flight and pending      *)
(* timers are state; the server's answers are inputs.                      *)
(***************************************************************************)
EXTENDS Integers, Sequences, FiniteSets, TLC

(* ------------------------------ bounds -------------------------------- *)

\* Longest file list the model lets the user build.
MaxFiles == 3
\* Most files one drop / file-dialog selection adds.
MaxBatch == 1
\* Cap on the entries accumulated in uploadResult.files.
MaxAccum == 3
\* Most delayed step changes (setTimeout of handleConfirmUpload) pending.
MaxTimers == 1
\* Most analyze requests in flight.
MaxAnalyses == 1
\* Most job-status requests (GET /api/jobs/{id}) in flight.
MaxGets == 1
\* Most requests of Step3Generate (job lookups and POST /api/generate) in
\* flight.
MaxGens == 1

(* ----------------------------- universes ------------------------------ *)

NoJob == "none"
Jobs == {"J1", "J2"}
JobOrNone == Jobs \cup {NoJob}

\* Local files the user can select: two distinct files share the name "a"
\* (addFiles tells them apart by size), "z" is an archive.
FileUniverse ==
    { [name |-> "a", size |-> 1],
      [name |-> "a", size |-> 2],
      [name |-> "z", size |-> 1] }

\* What the transport's progress callback reports before the response.
ProgressSteps == {100}

\* Ways a POST /api/upload can fail: an HTTP error status (404 stands for
\* the statuses the catch block does not single out), or the abort of the
\* 10-minute timer.
HttpStatuses == {413, 408, 504, 500, 404}
UploadErrors ==
    { [kind |-> "http", status |-> s] : s \in HttpStatuses }
      \cup { [kind |-> "abort", status |-> 0] }

NoError == "none"
NoResult == [job_id |-> NoJob, count |-> 0, files |-> << >>, extracted_dirs |-> << >>, set |-> FALSE]

(* ------------------------------ state --------------------------------- *)

VARIABLES
    \* Step1Upload component state (part_004:5-13)
    uploadedFiles,      \* the selected files, in list order
    uploadResult,       \* accumulated upload result, NoResult when null
    isUploading,
    error,              \* the displayed error message (a message kind)
    fileProgress,       \* name -> 0..100, a function on the recorded names
    uploadedFileNames,  \* names marked uploaded
    currentJobIdRef,
    up,                 \* locals of the handleUpload invocation of this view
    \* App state (TabBar.jsx:166-175) and browser state
    currentStep,
    maxReachedStep,
    currentJobId,
    currentJob,         \* job id whose status object is held, NoJob when null
    storage,            \* localStorage i2pptt_current_job_id, NoJob when absent
    stepTimers,         \* pending setTimeout(() => setCurrentStep(2), 100)
    jobGets,            \* GET /api/jobs/{id} requests in flight
    intervals,          \* job ids (or NoJob) whose polling interval is set
    orphan,             \* handleUpload invocation of an unmounted Step1Upload
    \* Step2Analyze
    s2,                 \* component state
    analyses,           \* analyze requests in flight
    \* Step3Generate
    step3JobId,         \* the jobId prop of App's last render of step 3
    currentJobFields,   \* fields present in the job object App holds
    s3,                 \* component state
    gens,               \* requests of startGeneration / doGenerate in flight
    \* parseMarkdownStructure (Step2Analyze.jsx:204-313)
    lines,              \* content.split('\n'), << >> when there is no content
    lineIndex,
    structure,          \* the groups created so far and the root image list
    currentGroup,       \* index of the open group in structure.nodes, 0 for null
    currentSubGroup,
    currentSubSubGroup,
    renderedStructure,  \* the structure of the previous render (line 315)
    \* history
    acked,              \* list entries that received a successful response
    sessFiles,          \* files uploaded successfully in this upload session
    resume              \* job id restored by the last page load, until an upload
                        \* starts or step 1 is navigated to; NoJob otherwise

step1Vars == << uploadedFiles, uploadResult, isUploading, error, fileProgress,
                uploadedFileNames, currentJobIdRef, up >>
appVars == << currentStep, maxReachedStep, currentJobId, currentJob, storage,
              stepTimers, jobGets, intervals, orphan >>
step2Vars == << s2, analyses >>
step3Vars == << step3JobId, currentJobFields, s3, gens >>
histVars == << acked, sessFiles >>
parseVars == << lines, lineIndex, structure, currentGroup, currentSubGroup,
                currentSubSubGroup, renderedStructure >>
vars == << step1Vars, appVars, step2Vars, step3Vars, histVars, resume, parseVars >>

(* ----------------------------- helpers -------------------------------- *)

Max(a, b) == IF a >= b THEN a ELSE b

InList(f, list) == \E i \in 1..Len(list) : list[i] = f

RECURSIVE Filter(_, _)
\* Array.prototype.filter with the predicate "is in keep"
Filter(list, keep) ==
    IF list = << >> THEN << >>
    ELSE IF Head(list) \in keep THEN << Head(list) >> \o Filter(Tail(list), keep)
    ELSE Filter(Tail(list), keep)

RemoveAt(list, i) == SubSeq(list, 1, i - 1) \o SubSeq(list, i + 1, Len(list))

\* { ...prev, [name]: value }
SetKey(map, name, value) ==
    [n \in (DOMAIN map) \cup {name} |-> IF n = name THEN value ELSE map[n]]
\* delete map[name]
DeleteKey(map, name) == [n \in (DOMAIN map) \ {name} |-> map[n]]
\* fileProgress[name] || 0
ProgressOf(map, name) == IF name \in DOMAIN map THEN map[name] ELSE 0
EmptyMap == [n \in {} |-> 0]

IsArchive(f) == f.name = "z"
\* The response body of a successful POST /api/upload for file f.
UploadData(f, job) ==
    [job_id |-> job,
     count |-> IF IsArchive(f) THEN 2 ELSE 1,
     files |-> << f.name >>,
     extracted_dirs |-> IF IsArchive(f) THEN << f.name >> ELSE << >>]

\* data.count || 1
CountOrOne(c) == IF c = 0 THEN 1 ELSE c

\* Mutant of Adopts: every response's job id replaces the held one.
AdoptsAlways(ref, job) == job # NoJob

\* data.job_id && !currentJobIdRef.current (part_004:164)
Adopts(ref, job) == job # NoJob /\ ref = NoJob

\* Locals of handleUpload: the captured filesToUpload (queue), the loop
\* position, the accumulators, and the job_id field of the request in flight.
\* marks0 remembers uploadedFileNames as captured at the call.
\* Once the invocation has ended only its outcome is kept: pc, the position
\* idx it ended at and the number n of files it was to send.
IdleUp == [pc |-> "idle", queue |-> << >>, idx |-> 0, n |-> 0, total |-> 0, dirs |-> << >>,
           acc |-> NoResult, reqJob |-> NoJob, marks0 |-> {}]
\* A handleUpload invocation whose component was unmounted: files still to
\* send after the one in flight, its own currentJobIdRef, the job id of its
\* accumulatedResult (got: one exists), the job_id of the request in flight.
NoOrphan == [active |-> FALSE, left |-> 0, ref |-> NoJob, acc |-> NoJob,
             got |-> FALSE, reqJob |-> NoJob]
FreshS2 == [isAnalyzing |-> FALSE, hasResult |-> FALSE, error |-> NoError]

\* Step3Generate's state after construction (Step3Generate.jsx:19-24); the
\* three results are kept as "is set".  Its loadJob effect (27-42) only
\* requests the job and logs the answer: it sets no state.
FreshS3 == [isGenerating |-> FALSE, generateResult |-> FALSE, error |-> NoError,
            pptxPath |-> FALSE, downloadUrl |-> FALSE]

\* The fields of a job object that startGeneration and the Generate button
\* read (Step3Generate.jsx:55, 71, 272).
Fields == {"md_path", "directory", "filename"}
FieldSets == SUBSET Fields

(* ------------------ handleUpload: error classification ---------------- *)

\* part_004 never declares totalSizeMB, which three of the message
\* templates interpolate: evaluating one of them throws a ReferenceError.
TotalSizeMBDeclared == FALSE
Threw == "ReferenceError"
WithTotalSize(msg) == IF TotalSizeMBDeclared THEN msg ELSE Threw

\* The errorMsg the catch block computes for a failure e (part_004:236-267),
\* or Threw when computing it throws.
ErrorMessage(e) ==
    IF e.kind = "abort" THEN WithTotalSize("Timeout")
    ELSE IF e.kind = "http" THEN
        IF e.status = 413 THEN WithTotalSize("TooLarge")
        ELSE IF e.status = 408 \/ e.status = 504 THEN WithTotalSize("Timeout")
        ELSE IF e.status = 500 THEN "ServerError"
        ELSE "Generic"
    ELSE "NetworkMessage"

\* The displayed error after the catch/finally block: setError(errorMsg) is
\* skipped when the template threw, leaving the null of line 115.
ErrorAfterCatch(e, shown) ==
    IF ErrorMessage(e) = Threw THEN shown ELSE ErrorMessage(e)

(* ---------------------- Step1Upload: render logic --------------------- *)

\* Mutant of FilesToUpload: the marks are ignored, the whole list is sent.
FilesToUploadAll(list, marks) == list

\* uploadedFiles.filter(file => !uploadedFileNames.has(file.name))
FilesToUpload(list, marks) == Filter(list, {f \in FileUniverse : f.name \notin marks})

\* The Start Upload button is enabled (part_004:421-425).
UploadEnabled ==
    /\ Len(uploadedFiles) # 0
    /\ FilesToUpload(uploadedFiles, uploadedFileNames) # << >>
    /\ ~isUploading

\* Mutant of ConfirmDisabled: the single-file / extracted-directory test is
\* dropped.
ConfirmDisabledAnyCount ==
    \/ Len(uploadedFiles) = 0
    \/ \E i \in 1..Len(uploadedFiles) :
           \/ uploadedFiles[i].name \notin uploadedFileNames
           \/ ProgressOf(fileProgress, uploadedFiles[i].name) < 100
    \/ isUploading

\* The Confirm button's disabled expression (part_004:432-442).
ConfirmDisabled ==
    \/ Len(uploadedFiles) = 0
    \/ (Len(uploadedFiles) <= 1 /\ Len(uploadResult.extracted_dirs) = 0)
    \/ \E i \in 1..Len(uploadedFiles) :
           \/ uploadedFiles[i].name \notin uploadedFileNames
           \/ ProgressOf(fileProgress, uploadedFiles[i].name) < 100
    \/ isUploading

(* ------------------------------ server ------------------------------- *)

\* Job ids are opaque to the client, which only tests them for presence and
\* passes them on.  The server answers an upload with an id the client has
\* seen, or with the first id it has not handed out yet.
JobsInUse ==
    ({currentJobIdRef, uploadResult.job_id, up.acc.job_id, up.reqJob, currentJobId,
      currentJob, storage, orphan.ref, orphan.acc, orphan.reqJob}
        \cup { g.job : g \in jobGets } \cup { a.job : a \in analyses }
        \cup { a.cj : a \in analyses } \cup { g.job : g \in gens }) \ {NoJob}
FirstUnused ==
    IF "J1" \notin JobsInUse THEN {"J1"}
    ELSE IF "J2" \notin JobsInUse THEN {"J2"} ELSE {}
ServerJobs == JobsInUse \cup FirstUnused

(* --------------------------- App: effects ----------------------------- *)

Min(a, b) == IF a <= b THEN a ELSE b

\* Issue GET /api/jobs/{job}; poll tells fetchJob of the polling effect from
\* the one-shot fetch of handleUploadSuccess / handleConfirmUpload.  A request
\* beyond MaxGets is never answered.
AddGet(gets, job, poll) ==
    LET g == [job |-> job, poll |-> poll]
    IN  IF g \in gets \/ Cardinality(gets) < MaxGets THEN gets \cup {g} ELSE gets

\* Issue GET /api/analyze; beyond MaxAnalyses the request is never answered.
AddAnalysis(an, a) ==
    IF a \in an \/ Cardinality(an) < MaxAnalyses THEN an \cup {a} ELSE an

\* The jobId prop App passes to Step2Analyze and Step3Generate
\* (TabBar.jsx:543, 574): currentJobId || localStorage.getItem(...)
JobIdProp(jid, stor) == IF jid # NoJob THEN jid ELSE stor

\* Step2Analyze's effect on [jobId] (Step2Analyze.jsx:11-39) followed by
\* startAnalysis (128-139): component state, then the requests in flight.
S2AfterStart(s, prop) ==
    IF prop = NoJob THEN [s EXCEPT !.error = "MissingJobId"]
    ELSE [isAnalyzing |-> TRUE, hasResult |-> FALSE, error |-> NoError]
AnAfterStart(an, prop, cj) ==
    IF prop = NoJob THEN an
    ELSE AddAnalysis(an, [job |-> prop, cj |-> cj, live |-> TRUE, phase |-> "analyze"])

\* Requests of an unmounted Step2Analyze keep running; their setState calls
\* no longer do anything.
Detach(an) == { [a EXCEPT !.live = FALSE] : a \in an }

\* What a step leaves of the props App passes to Step3Generate
\* (TabBar.jsx:570-576).  job={currentJob}: fetched tells that the step
\* stored a job object just received, with the fields f.  jobId is computed
\* when App renders, that is when App's state changed.
Step3Props(fetched, f) ==
    LET rendered == \/ fetched
                    \/ << currentStep', maxReachedStep', currentJobId', currentJob' >>
                         # << currentStep, maxReachedStep, currentJobId, currentJob >>
    IN  /\ currentJobFields' = IF currentJob' = NoJob THEN {}
                               ELSE IF fetched THEN f ELSE currentJobFields
        /\ step3JobId' = IF currentStep' # 3 THEN NoJob
                         ELSE IF rendered THEN JobIdProp(currentJobId', storage')
                         ELSE step3JobId

\* Mutant of PollEffect: the effect's cleanup does not clear the interval.
PollEffectNoCleanup(old, jid) == intervals \cup {jid}

\* The polling effect re-run for a changed job id (TabBar.jsx:193-214): the
\* cleanup clears the interval of the previous run, the new run sets one.
PollEffect(old, jid) == (intervals \ {old}) \cup {jid}

\* Commit of a render of App after a handler left the given values: the
\* persistence effect (TabBar.jsx:184-190), the polling effect's immediate
\* fetchJob (194-214), the mount, unmount or re-run of Step2Analyze's
\* effect, and the mount or unmount of Step3Generate.  s2h and anh are
\* Step2Analyze's state as the handler left it.
AppCommit(step, maxR, jid, job, stor, timers, gets, orph, s2h, anh) ==
    LET changed == jid # currentJobId
        stor2 == IF changed THEN jid ELSE stor
        job2 == IF changed /\ jid = NoJob THEN NoJob ELSE job
        gets2 == IF changed /\ jid # NoJob THEN AddGet(gets, jid, TRUE) ELSE gets
        prop0 == JobIdProp(currentJobId, storage)
        prop1 == JobIdProp(jid, stor2)
        mount2 == step = 2 /\ currentStep # 2
        rerun2 == step = 2 /\ currentStep = 2 /\ prop1 # prop0
        leave2 == step # 2 /\ currentStep = 2
        mount3 == step = 3 /\ currentStep # 3
        leave3 == step # 3 /\ currentStep = 3
    IN  /\ currentStep' = step
        /\ maxReachedStep' = maxR
        /\ currentJobId' = jid
        /\ currentJob' = job2
        /\ storage' = stor2
        /\ stepTimers' = timers
        /\ jobGets' = gets2
        /\ intervals' = IF changed THEN PollEffect(currentJobId, jid) ELSE intervals
        /\ orphan' = orph
        /\ s2' = IF mount2 THEN S2AfterStart(FreshS2, prop1)
                 ELSE IF rerun2 THEN S2AfterStart(s2h, prop1)
                 ELSE IF leave2 THEN FreshS2
                 ELSE s2h
        /\ analyses' = IF mount2 \/ rerun2 THEN AnAfterStart(anh, prop1, jid)
                       ELSE IF leave2 THEN Detach(anh)
                       ELSE anh
        /\ s3' = IF mount3 \/ leave3 THEN FreshS3 ELSE s3
        /\ gens' = IF leave3 THEN Detach(gens) ELSE gens

\* handleUploadSuccess (TabBar.jsx:229-239) then the commit.
HandleUploadSuccess(job, stor, orph) ==
    IF job # NoJob
    THEN AppCommit(currentStep, maxReachedStep, job, currentJob, job, stepTimers,
                   AddGet(jobGets, job, FALSE), orph, s2, analyses)
    ELSE AppCommit(currentStep, maxReachedStep, currentJobId, currentJob, stor,
                   stepTimers, jobGets, orph, s2, analyses)

\* handleConfirmUpload (TabBar.jsx:241-266) for a non-null result, then the
\* commit; the delayed setCurrentStep(2) becomes a pending timer.
HandleConfirmUpload(job) ==
    LET timers == Min(stepTimers + 1, MaxTimers)
        maxR == Max(maxReachedStep, 2)
    IN  IF job # NoJob
        THEN AppCommit(currentStep, maxR, job, currentJob, job, timers,
                       AddGet(jobGets, job, FALSE), orphan, s2, analyses)
        ELSE AppCommit(currentStep, maxR, currentJobId, currentJob, storage, timers,
                       jobGets, orphan, s2, analyses)

AppUnchanged == UNCHANGED << appVars, step2Vars, s3, gens >>

(* ----------------------- Step1Upload: handlers ------------------------ *)

Mounted1 == currentStep = 1

\* Selections a drop or the file dialog can deliver: distinct files.
Batches ==
    { b \in UNION { [1..n -> FileUniverse] : n \in 1..MaxBatch } :
        \A i, j \in 1..Len(b) : i # j => b[i] # b[j] }

\* addFiles (part_004:29-45)
AddFiles(batch) ==
    LET newFiles == Filter(batch, {f \in FileUniverse : ~InList(f, uploadedFiles)})
    IN  /\ Mounted1
        /\ Len(uploadedFiles) + Len(newFiles) <= MaxFiles
        \* bound: a file uploaded in this session and then removed is not selected again
        /\ \A i \in 1..Len(newFiles) : ~InList(newFiles[i], sessFiles)
        /\ currentJobIdRef' =
              IF Len(uploadedFiles) = 0 /\ uploadedFileNames = {} /\ Len(newFiles) > 0
              THEN NoJob ELSE currentJobIdRef
        /\ error' = IF Len(newFiles) > 0 THEN NoError ELSE error
        /\ uploadedFiles' = uploadedFiles \o newFiles
        /\ UNCHANGED << uploadResult, isUploading, fileProgress, uploadedFileNames, up >>
        /\ AppUnchanged
        /\ UNCHANGED histVars
        /\ UNCHANGED resume
        /\ Step3Props(FALSE, {})
        /\ UNCHANGED parseVars

\* removeFile (part_004:47-72)
RemoveFile(index) ==
    LET removedFile == uploadedFiles[index]
        newFiles == RemoveAt(uploadedFiles, index)
    IN  /\ Mounted1
        /\ index \in 1..Len(uploadedFiles)
        /\ uploadedFiles' = newFiles
        /\ IF Len(newFiles) = 0
           THEN /\ uploadResult' = NoResult
                /\ currentJobIdRef' = NoJob
                /\ fileProgress' = EmptyMap
                /\ uploadedFileNames' = {}
                /\ acked' = {}
                /\ sessFiles' = << >>
           ELSE /\ fileProgress' = DeleteKey(fileProgress, removedFile.name)
                /\ uploadedFileNames' = uploadedFileNames \ {removedFile.name}
                /\ acked' = acked \ {removedFile}
                /\ UNCHANGED << uploadResult, currentJobIdRef, sessFiles >>
        /\ UNCHANGED << isUploading, error, up >>
        /\ AppUnchanged
        /\ UNCHANGED resume
        /\ Step3Props(FALSE, {})
        /\ UNCHANGED parseVars

\* handleUpload up to its first await (part_004:105-142), invoked by the
\* Start Upload button: the first request is in flight afterwards.
StartUpload ==
    LET queue == FilesToUpload(uploadedFiles, uploadedFileNames)
    IN  /\ Mounted1
        /\ UploadEnabled
        /\ Len(sessFiles) + Len(queue) <= MaxAccum
        /\ error' = NoError
        /\ isUploading' = TRUE
        /\ up' = [pc |-> "sending", queue |-> queue, idx |-> 1, n |-> Len(queue), total |-> 0,
                  dirs |-> << >>, acc |-> NoResult, reqJob |-> currentJobIdRef,
                  marks0 |-> uploadedFileNames]
        /\ fileProgress' = SetKey(fileProgress, queue[1].name, 0)
        /\ UNCHANGED << uploadedFiles, uploadResult, uploadedFileNames, currentJobIdRef >>
        /\ AppUnchanged
        /\ UNCHANGED histVars
        /\ resume' = NoJob
        /\ Step3Props(FALSE, {})
        /\ UNCHANGED parseVars

\* onUploadProgress (part_004:147-156) for the request in flight.
UploadProgress(p) ==
    LET name == up.queue[up.idx].name
    IN  /\ Mounted1
        /\ up.pc = "sending"
        /\ p > ProgressOf(fileProgress, name)
        /\ fileProgress' = SetKey(fileProgress, name, p)
        /\ UNCHANGED << uploadedFiles, uploadResult, isUploading, error,
                        uploadedFileNames, currentJobIdRef, up >>
        /\ AppUnchanged
        /\ UNCHANGED histVars
        /\ UNCHANGED resume
        /\ Step3Props(FALSE, {})
        /\ UNCHANGED parseVars

\* setUploadResult's updater (part_004:199-213)
MergeResult(prev, acc, total, dirs) ==
    IF prev.set
    THEN [prev EXCEPT !.count = prev.count + total,
                      !.files = prev.files \o acc.files,
                      !.extracted_dirs = prev.extracted_dirs \o dirs]
    ELSE [acc EXCEPT !.count = total, !.extracted_dirs = dirs]

\* The loop body after a successful response (part_004:159-195), then either
\* the next iteration up to its await (125-142) or the code after the loop
\* (198-232) and the finally block.
UploadResponseOk(job) ==
    LET file == up.queue[up.idx]
        data == UploadData(file, job)
        adopt == Adopts(currentJobIdRef, data.job_id)
        ref2 == IF adopt THEN data.job_id ELSE currentJobIdRef
        stor2 == IF adopt THEN data.job_id ELSE storage
        prog2 == SetKey(fileProgress, file.name, 100)
        total2 == up.total + CountOrOne(data.count)
        dirs2 == up.dirs \o data.extracted_dirs
        acc2 == IF ~up.acc.set
                THEN [job_id |-> data.job_id, count |-> data.count, files |-> data.files,
                      extracted_dirs |-> data.extracted_dirs, set |-> TRUE]
                ELSE [up.acc EXCEPT !.files = up.acc.files \o data.files]
        more == up.idx < Len(up.queue)
    IN  /\ Mounted1
        /\ up.pc = "sending"
        /\ currentJobIdRef' = ref2
        /\ uploadedFileNames' = uploadedFileNames \cup {file.name}
        /\ acked' = IF InList(file, uploadedFiles) THEN acked \cup {file} ELSE acked
        /\ sessFiles' = Append(sessFiles, file)
        /\ UNCHANGED uploadedFiles
        /\ IF more
           THEN /\ up' = [up EXCEPT !.idx = up.idx + 1, !.total = total2, !.dirs = dirs2,
                                    !.acc = acc2, !.reqJob = ref2]
                /\ fileProgress' = SetKey(prog2, up.queue[up.idx + 1].name, 0)
                /\ UNCHANGED << uploadResult, isUploading, error >>
                /\ AppCommit(currentStep, maxReachedStep, currentJobId, currentJob, stor2,
                             stepTimers, jobGets, orphan, s2, analyses)
           ELSE /\ up' = [IdleUp EXCEPT !.pc = "done", !.idx = up.idx, !.n = up.n]
                /\ fileProgress' = prog2
                /\ uploadResult' = MergeResult(uploadResult, acc2, total2, dirs2)
                /\ error' = NoError
                /\ isUploading' = FALSE
                /\ HandleUploadSuccess(acc2.job_id, stor2, orphan)
        /\ UNCHANGED resume
        /\ Step3Props(FALSE, {})
        /\ UNCHANGED parseVars

\* Mutant of UploadResponseFail: the failed file is marked uploaded as well.
UploadResponseFailMarks(e) ==
    /\ Mounted1
    /\ up.pc = "sending"
    /\ error' = ErrorAfterCatch(e, error)
    /\ isUploading' = FALSE
    /\ up' = [IdleUp EXCEPT !.pc = "failed", !.idx = up.idx, !.n = up.n]
    /\ uploadedFileNames' = uploadedFileNames \cup {up.queue[up.idx].name}
    /\ UNCHANGED << uploadedFiles, uploadResult, fileProgress, currentJobIdRef >>
    /\ AppUnchanged
    /\ UNCHANGED histVars
    /\ UNCHANGED resume
    /\ Step3Props(FALSE, {})
    /\ UNCHANGED parseVars

\* The catch and finally blocks (part_004:233-274) for a failed request.
UploadResponseFail(e) ==
    /\ Mounted1
    /\ up.pc = "sending"
    /\ error' = ErrorAfterCatch(e, error)
    /\ isUploading' = FALSE
    /\ up' = [IdleUp EXCEPT !.pc = "failed", !.idx = up.idx, !.n = up.n]
    /\ UNCHANGED << uploadedFiles, uploadResult, fileProgress, uploadedFileNames,
                    currentJobIdRef >>
    /\ AppUnchanged
    /\ UNCHANGED histVars
    /\ UNCHANGED resume
    /\ Step3Props(FALSE, {})
    /\ UNCHANGED parseVars

\* handleConfirm (part_004:277-316), invoked by the Confirm button.
HandleConfirm ==
    LET jobId == IF uploadResult.job_id # NoJob THEN uploadResult.job_id
                 ELSE IF currentJobIdRef # NoJob THEN currentJobIdRef
                 ELSE storage
    IN  /\ Mounted1
        /\ ~ConfirmDisabled
        /\ IF ~uploadResult.set
           THEN /\ error' = "PleaseUploadFirst"
                /\ AppUnchanged
           ELSE IF jobId = NoJob
           THEN /\ error' = "MissingJobId"
                /\ AppUnchanged
           ELSE /\ error' = NoError
                /\ HandleConfirmUpload(jobId)
        /\ UNCHANGED << uploadedFiles, uploadResult, isUploading, fileProgress,
                        uploadedFileNames, currentJobIdRef, up >>
        /\ UNCHANGED histVars
        /\ UNCHANGED resume
        /\ Step3Props(FALSE, {})
        /\ UNCHANGED parseVars

(* -------------------- mounting and unmounting step 1 ------------------ *)

\* A fresh Step1Upload (the useState initial values, part_004:5-19).
FreshStep1 ==
    /\ uploadedFiles' = << >>
    /\ uploadResult' = NoResult
    /\ isUploading' = FALSE
    /\ error' = NoError
    /\ fileProgress' = EmptyMap
    /\ uploadedFileNames' = {}
    /\ currentJobIdRef' = NoJob
    /\ up' = IdleUp
    /\ acked' = {}
    /\ sessFiles' = << >>

\* App renders Step1Upload only while currentStep = 1 (TabBar.jsx:532-538):
\* leaving step 1 discards the component's state.
Step1After(step) ==
    IF currentStep = 1 /\ step # 1 THEN FreshStep1
    ELSE UNCHANGED << step1Vars, histVars >>

\* A handleUpload invocation awaiting its response when the component is
\* unmounted keeps running with its own locals and ref.
OrphanAfter(step) ==
    IF currentStep = 1 /\ step # 1 /\ up.pc = "sending"
    THEN [active |-> TRUE, left |-> Len(up.queue) - up.idx, ref |-> currentJobIdRef,
          acc |-> up.acc.job_id, got |-> up.acc.set, reqJob |-> up.reqJob]
    ELSE orphan

\* The model follows at most one invocation of an unmounted component.
CanLeave1(step) == ~(currentStep = 1 /\ step # 1 /\ up.pc = "sending" /\ orphan.active)

(* --------------------------- App: handlers ---------------------------- *)

\* TabBar's isEnabled for tab s (TabBar.jsx:6).
TabEnabled(s) == s <= maxReachedStep

\* Mutant of TabClick: going to step 1 keeps the high-water mark.
TabClickKeepsMax(s) ==
    LET toOne == s = 1
    IN  /\ s <= maxReachedStep
        /\ CanLeave1(s)
        /\ AppCommit(s, maxReachedStep,
                     IF toOne THEN NoJob ELSE currentJobId,
                     IF toOne THEN NoJob ELSE currentJob,
                     IF toOne THEN NoJob ELSE storage,
                     stepTimers, jobGets, OrphanAfter(s), s2, analyses)
        /\ Step1After(s)
        /\ resume' = IF s = 1 THEN NoJob ELSE resume
        /\ Step3Props(FALSE, {})
        /\ UNCHANGED parseVars

\* Mutant of TabClick: neither TabBar nor handleStepChange tests the
\* high-water mark.
TabClickUnguarded(s) ==
    LET toOne == s = 1
    IN  /\ CanLeave1(s)
        /\ AppCommit(s,
                     IF toOne THEN 1 ELSE maxReachedStep,
                     IF toOne THEN NoJob ELSE currentJobId,
                     IF toOne THEN NoJob ELSE currentJob,
                     IF toOne THEN NoJob ELSE storage,
                     stepTimers, jobGets, OrphanAfter(s), s2, analyses)
        /\ Step1After(s)
        /\ resume' = IF s = 1 THEN NoJob ELSE resume
        /\ Step3Props(FALSE, {})
        /\ UNCHANGED parseVars

\* A click on tab s: TabBar's onClick guard (TabBar.jsx:6-15), then
\* handleStepChange (216-227).  A click on a disabled tab does nothing.
TabClick(s) ==
    LET isEnabled == TabEnabled(s)
        toOne == s = 1
        step == IF s <= maxReachedStep THEN s ELSE currentStep
    IN  IF ~isEnabled THEN UNCHANGED vars
        ELSE /\ CanLeave1(step)
             /\ AppCommit(step,
                          IF toOne THEN 1 ELSE maxReachedStep,
                          IF toOne THEN NoJob ELSE currentJobId,
                          IF toOne THEN NoJob ELSE currentJob,
                          IF toOne THEN NoJob ELSE storage,
                          stepTimers, jobGets, OrphanAfter(step), s2, analyses)
             /\ Step1After(step)
             /\ resume' = IF s = 1 THEN NoJob ELSE resume
             /\ Step3Props(FALSE, {})
             /\ UNCHANGED parseVars

\* The timer of handleConfirmUpload fires: setCurrentStep(() => 2)
\* (TabBar.jsx:259-261).
StepTimerFires ==
    /\ stepTimers > 0
    /\ CanLeave1(2)
    /\ AppCommit(2, maxReachedStep, currentJobId, currentJob, storage, stepTimers - 1,
                 jobGets, OrphanAfter(2), s2, analyses)
    /\ Step1After(2)
    /\ UNCHANGED resume
    /\ Step3Props(FALSE, {})
    /\ UNCHANGED parseVars

\* fetchJob run by the polling interval (TabBar.jsx:195-212) up to its await.
PollTick ==
    /\ \E id \in intervals :
          IF id = NoJob
          THEN AppCommit(currentStep, maxReachedStep, currentJobId, NoJob, storage,
                         stepTimers, jobGets, orphan, s2, analyses)
          ELSE /\ [job |-> id, poll |-> TRUE] \notin jobGets
               /\ Cardinality(jobGets) < MaxGets
               /\ AppCommit(currentStep, maxReachedStep, currentJobId, currentJob,
                            storage, stepTimers, AddGet(jobGets, id, TRUE), orphan,
                            s2, analyses)
    /\ UNCHANGED << step1Vars, histVars >>
    /\ UNCHANGED resume
    /\ Step3Props(FALSE, {})
    /\ UNCHANGED parseVars

\* A GET /api/jobs/{id} is answered: fetchJob's continuation
\* (TabBar.jsx:202-206) or the one-shot fetch's (235-237, 249-253).  f: the
\* fields of the job object returned.
JobGetResponse(g, ok, f) ==
    /\ g \in jobGets
    /\ AppCommit(currentStep, maxReachedStep, currentJobId,
                 IF ok THEN g.job ELSE IF g.poll THEN NoJob ELSE currentJob,
                 storage, stepTimers, jobGets \ {g}, orphan, s2, analyses)
    /\ UNCHANGED << step1Vars, histVars >>
    /\ UNCHANGED resume
    /\ Step3Props(ok, f)
    /\ UNCHANGED parseVars

\* The page is loaded again: every component is constructed anew
\* (TabBar.jsx:166-175), requests and timers of the old page are gone, and
\* localStorage is what remains.
LoadPage(stor) ==
    /\ currentStep' = 1
    /\ maxReachedStep' = 1
    /\ currentJobId' = stor
    /\ currentJob' = NoJob
    /\ storage' = stor
    /\ stepTimers' = 0
    /\ jobGets' = IF stor # NoJob THEN {[job |-> stor, poll |-> TRUE]} ELSE {}
    /\ intervals' = {stor}
    /\ orphan' = NoOrphan
    /\ s2' = FreshS2
    /\ analyses' = {}
    /\ s3' = FreshS3
    /\ gens' = {}
    /\ FreshStep1
    /\ resume' = stor
    /\ Step3Props(FALSE, {})
    /\ UNCHANGED parseVars

Reload ==
    /\ LoadPage(storage)

(* ------------------------- Step2Analyze ------------------------------- *)

\* GET /api/analyze is answered successfully (Step2Analyze.jsx:146-155): the
\* result is stored and the job refresh is requested.
AnalyzeOk(a) ==
    /\ a \in analyses
    /\ a.phase = "analyze"
    /\ s2' = IF a.live THEN [s2 EXCEPT !.hasResult = TRUE] ELSE s2
    /\ analyses' = (analyses \ {a}) \cup {[a EXCEPT !.phase = "job"]}
    /\ UNCHANGED << appVars, step1Vars, histVars, s3, gens >>
    /\ UNCHANGED resume
    /\ Step3Props(FALSE, {})
    /\ UNCHANGED parseVars

\* GET /api/analyze fails (Step2Analyze.jsx:168-200).
AnalyzeFail(a) ==
    /\ a \in analyses
    /\ a.phase = "analyze"
    /\ s2' = IF a.live THEN [s2 EXCEPT !.error = "AnalysisFailed", !.isAnalyzing = FALSE]
             ELSE s2
    /\ analyses' = analyses \ {a}
    /\ UNCHANGED << appVars, step1Vars, histVars, s3, gens >>
    /\ UNCHANGED resume
    /\ Step3Props(FALSE, {})
    /\ UNCHANGED parseVars

\* The job refresh after an analysis is answered (Step2Analyze.jsx:155-166,
\* 197-200): onAnalysisComplete of the render that started the analysis
\* (TabBar.jsx:544-563) runs with that render's currentJobId, a.cj.
\* gotJob: the refresh succeeded, f: the fields of the job object it
\* returned; resJob: the job_id field of the analyze response, NoJob when
\* it has none.
AnalysisComplete(a, gotJob, resJob, f) ==
    LET jobId == IF resJob # NoJob THEN resJob
                 ELSE IF a.cj # NoJob THEN a.cj ELSE storage
        setId == jobId # NoJob /\ a.cj = NoJob
        s2h == IF a.live THEN [s2 EXCEPT !.isAnalyzing = FALSE] ELSE s2
    IN  /\ a \in analyses
        /\ a.phase = "job"
        /\ resJob \in {NoJob, a.job}
        /\ AppCommit(currentStep, Max(maxReachedStep, 3),
                     IF setId THEN jobId ELSE currentJobId,
                     IF gotJob THEN a.job ELSE currentJob,
                     IF setId THEN jobId ELSE storage,
                     stepTimers, jobGets, orphan, s2h, analyses \ {a})
        /\ UNCHANGED << step1Vars, histVars >>
        /\ UNCHANGED resume
        /\ Step3Props(gotJob, f)
        /\ UNCHANGED parseVars

\* The Retry button (Step2Analyze.jsx:413-418): startAnalysis (128-139).
Step2Retry ==
    /\ currentStep = 2
    /\ s2.error # NoError
    /\ s2' = S2AfterStart(s2, JobIdProp(currentJobId, storage))
    /\ analyses' = AnAfterStart(analyses, JobIdProp(currentJobId, storage), currentJobId)
    /\ UNCHANGED << appVars, step1Vars, histVars, s3, gens >>
    /\ UNCHANGED resume
    /\ Step3Props(FALSE, {})
    /\ UNCHANGED parseVars

\* The buttons under the analysis result are rendered when
\* analysisResult && !isAnalyzing (Step2Analyze.jsx:422, 493-515).
Step2ButtonsShown == currentStep = 2 /\ s2.hasResult /\ ~s2.isAnalyzing

\* Step 2's Confirm: App's onConfirm (TabBar.jsx:564-567).
Step2Confirm ==
    /\ Step2ButtonsShown
    /\ AppCommit(3, Max(maxReachedStep, 3), currentJobId, currentJob, storage,
                 stepTimers, jobGets, orphan, s2, analyses)
    /\ UNCHANGED << step1Vars, histVars >>
    /\ UNCHANGED resume
    /\ Step3Props(FALSE, {})
    /\ UNCHANGED parseVars

\* Start New Job (Step2Analyze.jsx:495-503): the key is removed and the page
\* is loaded again.
StartNewJob ==
    /\ Step2ButtonsShown
    /\ LoadPage(NoJob)

(* ------------------------- Step3Generate ------------------------------ *)

\* The Generate button is enabled (Step3Generate.jsx:269-275); a null job
\* has no field.
GenerateEnabled == currentStep = 3 /\ ~s3.isGenerating /\ Fields \subseteq currentJobFields

\* The Retry button is rendered with the error (Step3Generate.jsx:234-244).
RetryShown == currentStep = 3 /\ s3.error # NoError

\* Mutant of FieldsPresent: md_path is not tested.
FieldsPresentButMd(f) == {"directory", "filename"} \subseteq f

\* md_path && directory && filename (Step3Generate.jsx:55, 71).
FieldsPresent(f) == Fields \subseteq f

\* doGenerate up to its await (Step3Generate.jsx:79-107): the state a mounted
\* component is left in, and the POST /api/generate issued for job.
S3AfterDoGenerate == [FreshS3 EXCEPT !.isGenerating = TRUE]
GensAfterDoGenerate(gs, job, live) ==
    gs \cup {[kind |-> "generate", job |-> job, live |-> live]}

\* startGeneration (Step3Generate.jsx:44-77) up to its first await, invoked
\* by the Generate or the Retry button.
StartGeneration ==
    /\ GenerateEnabled \/ RetryShown
    /\ Cardinality(gens) < MaxGens
    /\ IF step3JobId = NoJob
       THEN IF storage = NoJob
            THEN /\ s3' = [s3 EXCEPT !.error = "MissingJobId"]
                 /\ gens' = gens
            ELSE /\ s3' = s3
                 /\ gens' = gens \cup {[kind |-> "job", job |-> storage, live |-> TRUE]}
       ELSE IF currentJob = NoJob
            THEN /\ s3' = [s3 EXCEPT !.error = "MissingJobInfo"]
                 /\ gens' = gens
            ELSE IF ~FieldsPresent(currentJobFields)
            THEN /\ s3' = [s3 EXCEPT !.error = "MissingFields"]
                 /\ gens' = gens
            ELSE /\ s3' = S3AfterDoGenerate
                 /\ gens' = GensAfterDoGenerate(gens, step3JobId, TRUE)
    /\ UNCHANGED << appVars, step1Vars, step2Vars, histVars, resume >>
    /\ UNCHANGED << step3JobId, currentJobFields, parseVars >>

\* startGeneration's GET /api/jobs/{savedJobId} is answered with a job
\* object holding the fields f (Step3Generate.jsx:53-59).
GenerateJobLoaded(g, f) ==
    /\ g \in gens
    /\ g.kind = "job"
    /\ IF FieldsPresent(f)
       THEN /\ s3' = IF g.live THEN S3AfterDoGenerate ELSE s3
            /\ gens' = GensAfterDoGenerate(gens \ {g}, g.job, g.live)
       ELSE /\ s3' = IF g.live THEN [s3 EXCEPT !.error = "MissingFields"] ELSE s3
            /\ gens' = gens \ {g}
    /\ UNCHANGED << appVars, step1Vars, step2Vars, histVars, resume >>
    /\ UNCHANGED << step3JobId, currentJobFields, parseVars >>

\* startGeneration's GET /api/jobs/{savedJobId} fails (Step3Generate.jsx:60-62).
GenerateJobFailed(g) ==
    /\ g \in gens
    /\ g.kind = "job"
    /\ s3' = IF g.live THEN [s3 EXCEPT !.error = "LoadJobFailed"] ELSE s3
    /\ gens' = gens \ {g}
    /\ UNCHANGED << appVars, step1Vars, step2Vars, histVars, resume >>
    /\ UNCHANGED << step3JobId, currentJobFields, parseVars >>

\* POST /api/generate is answered successfully: the rest of doGenerate's try
\* block and its finally (Step3Generate.jsx:109-172, 213-215).  pptx: the
\* response names a generated file.  The size lookups between the response
\* and the finally set pptxSize only, which is not kept here.
GenerateOk(g, pptx) ==
    /\ g \in gens
    /\ g.kind = "generate"
    /\ s3' = IF g.live
             THEN [s3 EXCEPT !.generateResult = TRUE, !.pptxPath = pptx,
                             !.downloadUrl = pptx, !.isGenerating = FALSE]
             ELSE s3
    /\ gens' = gens \ {g}
    /\ UNCHANGED << appVars, step1Vars, step2Vars, histVars, resume >>
    /\ UNCHANGED << step3JobId, currentJobFields, parseVars >>

\* POST /api/generate fails: doGenerate's catch and finally
\* (Step3Generate.jsx:173-215).
GenerateFail(g) ==
    /\ g \in gens
    /\ g.kind = "generate"
    /\ s3' = IF g.live THEN [s3 EXCEPT !.error = "GenerateFailed", !.isGenerating = FALSE]
             ELSE s3
    /\ gens' = gens \ {g}
    /\ UNCHANGED << appVars, step1Vars, step2Vars, histVars, resume >>
    /\ UNCHANGED << step3JobId, currentJobFields, parseVars >>

\* Start New Job of step 3 (Step3Generate.jsx:224-228).
Step3StartNewJob ==
    /\ currentStep = 3
    /\ LoadPage(NoJob)

(* ------------- handleUpload of an unmounted Step1Upload --------------- *)

\* As UploadResponseOk, for the invocation whose component is gone: the
\* setState calls do nothing, the ref, localStorage and the onUploadSuccess
\* callback remain.
OrphanResponseOk(job) ==
    LET adopt == Adopts(orphan.ref, job)
        ref2 == IF adopt THEN job ELSE orphan.ref
        stor2 == IF adopt THEN job ELSE storage
        acc2 == IF orphan.got THEN orphan.acc ELSE job
    IN  /\ orphan.active
        /\ IF orphan.left > 0
           THEN AppCommit(currentStep, maxReachedStep, currentJobId, currentJob, stor2,
                          stepTimers, jobGets,
                          [orphan EXCEPT !.left = orphan.left - 1, !.ref = ref2,
                                         !.acc = acc2, !.got = TRUE, !.reqJob = ref2],
                          s2, analyses)
           ELSE HandleUploadSuccess(acc2, stor2, NoOrphan)
        /\ UNCHANGED << step1Vars, histVars >>
        /\ UNCHANGED resume
        /\ Step3Props(FALSE, {})
        /\ UNCHANGED parseVars

OrphanResponseFail ==
    /\ orphan.active
    /\ orphan' = NoOrphan
    /\ UNCHANGED << currentStep, maxReachedStep, currentJobId, currentJob, storage,
                    stepTimers, jobGets, intervals, step2Vars, step1Vars,
                    histVars, s3, gens >>
    /\ UNCHANGED resume
    /\ Step3Props(FALSE, {})
    /\ UNCHANGED parseVars

(* ---------- parseMarkdownStructure (Step2Analyze.jsx:204-313) ---------- *)

\* A line is the sequence of its characters.
Sp == " "

\* String.prototype.trim, for lines whose only white space is the blank.
RECURSIVE TrimStart(_)
TrimStart(s) == IF s # << >> /\ Head(s) = Sp THEN TrimStart(Tail(s)) ELSE s
RECURSIVE TrimEnd(_)
TrimEnd(s) ==
    IF s # << >> /\ s[Len(s)] = Sp THEN TrimEnd(SubSeq(s, 1, Len(s) - 1)) ELSE s
Trim(s) == TrimEnd(TrimStart(s))

\* String.prototype.startsWith
StartsWith(s, p) == Len(s) >= Len(p) /\ SubSeq(s, 1, Len(p)) = p

\* trimmed.substring(n).trim(); also what match(/key:\s*(.+)/)?.[1]?.trim()
\* || '' yields for a trimmed line that starts with the n characters up to
\* and including the colon of key.
After(trimmed, n) == Trim(SubSeq(trimmed, n + 1, Len(trimmed)))

\* The prefixes the parser tests.
Hash1 == << "#", " " >>
Hash2 == << "#", "#" >>
Hash2Sp == << "#", "#", " " >>
Hash3 == << "#", "#", "#" >>
Hash3Sp == << "#", "#", "#", " " >>
PathKey == << "-", " ", "p", "a", "t", "h", ":" >>
FilenameKey == << "f", "i", "l", "e", "n", "a", "m", "e", ":" >>
TitleKey == << "t", "i", "t", "l", "e", ":" >>
SizeKey == << "s", "i", "z", "e", ":" >>
OrientationKey == << "o", "r", "i", "e", "n", "t", "a", "t", "i", "o", "n", ":" >>

\* Mutant of LineKind: a level 1 heading needs no blank after its '#'.
LineKindNoBlank(trimmed) ==
    IF StartsWith(trimmed, << "#" >>) /\ ~StartsWith(trimmed, Hash2) THEN "h1"
    ELSE IF StartsWith(trimmed, Hash2Sp) /\ ~StartsWith(trimmed, Hash3) THEN "h2"
    ELSE IF StartsWith(trimmed, Hash3Sp) THEN "h3"
    ELSE IF StartsWith(trimmed, PathKey) THEN "image"
    ELSE "other"

\* The branch of the loop body a trimmed line takes (Step2Analyze.jsx:223,
\* 236, 253, 269).
LineKind(trimmed) ==
    IF StartsWith(trimmed, Hash1) /\ ~StartsWith(trimmed, Hash2) THEN "h1"
    ELSE IF StartsWith(trimmed, Hash2Sp) /\ ~StartsWith(trimmed, Hash3) THEN "h2"
    ELSE IF StartsWith(trimmed, Hash3Sp) THEN "h3"
    ELSE IF StartsWith(trimmed, PathKey) THEN "image"
    ELSE "other"

\* structure.nodes holds every group object in creation order; parent is the
\* index of the group whose subgroups / subsubgroups array it was pushed to,
\* 0 for structure.groups.  structure.images is the root image list.
EmptyStructure == [nodes |-> << >>, images |-> << >>]

\* No earlier render has parsed a content.
NotParsed == [parsed |-> FALSE]

NewGroup(name, level, parent) ==
    [name |-> name, level |-> level, parent |-> parent, images |-> << >>]

\* The number of following lines the look-ahead may read
\* (i < lineIndex + 10, Step2Analyze.jsx:279).
LookAheadLines == 9

\* The look-ahead loop (Step2Analyze.jsx:279-295) from its index i (an index
\* of the code, counted from 0) for the image entry at index from.
RECURSIVE LookAhead(_, _, _, _)
LookAhead(ls, i, from, img) ==
    IF ~(i < Len(ls) /\ i < from + LookAheadLines + 1) THEN img
    ELSE LET nextTrimmed == Trim(ls[i + 1])
         IN  IF StartsWith(nextTrimmed, FilenameKey)
             THEN LookAhead(ls, i + 1, from,
                            [img EXCEPT !.filename = After(nextTrimmed, Len(FilenameKey))])
             ELSE IF StartsWith(nextTrimmed, TitleKey)
             THEN LookAhead(ls, i + 1, from,
                            [img EXCEPT !.title = After(nextTrimmed, Len(TitleKey))])
             ELSE IF StartsWith(nextTrimmed, SizeKey)
             THEN LookAhead(ls, i + 1, from,
                            [img EXCEPT !.size = After(nextTrimmed, Len(SizeKey))])
             ELSE IF StartsWith(nextTrimmed, OrientationKey)
             THEN LookAhead(ls, i + 1, from,
                            [img EXCEPT !.orientation = After(nextTrimmed, Len(OrientationKey))])
             ELSE IF StartsWith(nextTrimmed, << "-" >>) \/ StartsWith(nextTrimmed, << "#" >>)
             THEN img
             ELSE LookAhead(ls, i + 1, from, img)

\* Mutant of ImageAt: the look-ahead may read one line more.
ImageAtReadsTen(ls, idx, trimmed) ==
    LookAhead(ls, idx + 1, idx + 1,
              [path |-> After(trimmed, Len(PathKey)), filename |-> << >>,
               title |-> << >>, size |-> << >>, orientation |-> << >>])

\* The image object of the entry at lineIndex (Step2Analyze.jsx:270-276),
\* completed by the look-ahead.
ImageAt(ls, idx, trimmed) ==
    LookAhead(ls, idx + 1, idx,
              [path |-> After(trimmed, Len(PathKey)), filename |-> << >>,
               title |-> << >>, size |-> << >>, orientation |-> << >>])

\* Mutant of Level1Heading: a heading named like an earlier level 1 group
\* opens that group again.
Level1HeadingMerges(name) ==
    LET same == { n \in 1..Len(structure.nodes) :
                    structure.nodes[n].level = 1 /\ structure.nodes[n].name = name }
    IN  /\ structure' = IF same = {} THEN [structure EXCEPT
                                             !.nodes = Append(@, NewGroup(name, 1, 0))]
                        ELSE structure
        /\ currentGroup' = IF same = {} THEN Len(structure.nodes) + 1
                           ELSE CHOOSE n \in same : TRUE
        /\ currentSubGroup' = 0
        /\ currentSubSubGroup' = 0

\* The three heading branches (Step2Analyze.jsx:223-235, 236-252, 253-268).
Level1Heading(name) ==
    /\ structure' = [structure EXCEPT !.nodes = Append(@, NewGroup(name, 1, 0))]
    /\ currentGroup' = Len(structure.nodes) + 1
    /\ currentSubGroup' = 0
    /\ currentSubSubGroup' = 0

\* Mutant of Level2Heading: the level 3 pointer is kept.
Level2HeadingKeepsDeeper(name) ==
    /\ structure' = [structure EXCEPT
                        !.nodes = Append(@, NewGroup(name, 2, currentGroup))]
    /\ currentSubGroup' = Len(structure.nodes) + 1
    /\ UNCHANGED << currentGroup, currentSubSubGroup >>

Level2Heading(name) ==
    /\ structure' = [structure EXCEPT
                        !.nodes = Append(@, NewGroup(name, 2, currentGroup))]
    /\ currentSubGroup' = Len(structure.nodes) + 1
    /\ currentSubSubGroup' = 0
    /\ UNCHANGED currentGroup

Level3Heading(name) ==
    LET parent == IF currentSubGroup # 0 THEN currentSubGroup ELSE currentGroup
    IN  /\ structure' = [structure EXCEPT !.nodes = Append(@, NewGroup(name, 3, parent))]
        /\ currentSubSubGroup' = Len(structure.nodes) + 1
        /\ UNCHANGED << currentGroup, currentSubGroup >>

\* Mutant of ImageEntry: the level 2 group is preferred to the level 3 one.
ImageEntryShallow(img) ==
    LET target == IF currentSubGroup # 0 THEN currentSubGroup
                  ELSE IF currentSubSubGroup # 0 THEN currentSubSubGroup
                  ELSE currentGroup
    IN  /\ structure' = IF target # 0
                        THEN [structure EXCEPT !.nodes[target].images = Append(@, img)]
                        ELSE [structure EXCEPT !.images = Append(@, img)]
        /\ UNCHANGED << currentGroup, currentSubGroup, currentSubSubGroup >>

\* The image branch after the look-ahead (Step2Analyze.jsx:297-309).
ImageEntry(img) ==
    LET target == IF currentSubSubGroup # 0 THEN currentSubSubGroup
                  ELSE IF currentSubGroup # 0 THEN currentSubGroup
                  ELSE currentGroup
    IN  /\ structure' = IF target # 0
                        THEN [structure EXCEPT !.nodes[target].images = Append(@, img)]
                        ELSE [structure EXCEPT !.images = Append(@, img)]
        /\ UNCHANGED << currentGroup, currentSubGroup, currentSubSubGroup >>

\* One iteration of the loop over the lines (Step2Analyze.jsx:219-311).
ParseLine ==
    /\ lineIndex < Len(lines)
    /\ LET trimmed == Trim(lines[lineIndex + 1])
           kind == LineKind(trimmed)
       IN  IF kind = "h1" THEN Level1Heading(After(trimmed, 2))
           ELSE IF kind = "h2" THEN Level2Heading(After(trimmed, 3))
           ELSE IF kind = "h3" THEN Level3Heading(After(trimmed, 4))
           ELSE IF kind = "image" THEN ImageEntry(ImageAt(lines, lineIndex, trimmed))
           ELSE UNCHANGED << structure, currentGroup, currentSubGroup,
                             currentSubSubGroup >>
    /\ lineIndex' = lineIndex + 1
    /\ UNCHANGED << lines, renderedStructure >>
    /\ UNCHANGED << step1Vars, appVars, step2Vars, step3Vars, histVars, resume >>

\* The locals of parseMarkdownStructure when the loop is entered
\* (Step2Analyze.jsx:205-217) for the given lines.
ParserStart(ls) ==
    /\ lines = ls
    /\ lineIndex = 0
    /\ structure = EmptyStructure
    /\ currentGroup = 0
    /\ currentSubGroup = 0
    /\ currentSubSubGroup = 0
    /\ renderedStructure = NotParsed

\* Mutant of Rerender: the result object is shared between the calls.
RerenderSharesResult ==
    /\ lines # << >>
    /\ lineIndex = Len(lines)
    /\ renderedStructure' = structure
    /\ lineIndex' = 0
    /\ currentGroup' = 0
    /\ currentSubGroup' = 0
    /\ currentSubSubGroup' = 0
    /\ UNCHANGED << lines, structure >>
    /\ UNCHANGED << step1Vars, appVars, step2Vars, step3Vars, histVars, resume >>

\* Step2Analyze renders again with the same mdContent after the call has
\* returned: parseMarkdownStructure(mdContent) is called again
\* (Step2Analyze.jsx:315) with new locals (207-217).
Rerender ==
    /\ lines # << >>
    /\ lineIndex = Len(lines)
    /\ renderedStructure' = structure
    /\ lineIndex' = 0
    /\ structure' = EmptyStructure
    /\ currentGroup' = 0
    /\ currentSubGroup' = 0
    /\ currentSubSubGroup' = 0
    /\ UNCHANGED lines
    /\ UNCHANGED << step1Vars, appVars, step2Vars, step3Vars, histVars, resume >>

(* --------------------------- specification ---------------------------- *)

\* The wizard after construction.
InitWizard ==
    /\ uploadedFiles = << >>
    /\ uploadResult = NoResult
    /\ isUploading = FALSE
    /\ error = NoError
    /\ fileProgress = EmptyMap
    /\ uploadedFileNames = {}
    /\ currentJobIdRef = NoJob
    /\ up = IdleUp
    /\ currentStep = 1
    /\ maxReachedStep = 1
    /\ currentJobId = NoJob
    /\ currentJob = NoJob
    /\ storage = NoJob
    /\ stepTimers = 0
    /\ jobGets = {}
    /\ intervals = {NoJob}
    /\ orphan = NoOrphan
    /\ s2 = FreshS2
    /\ analyses = {}
    /\ step3JobId = NoJob
    /\ currentJobFields = {}
    /\ s3 = FreshS3
    /\ gens = {}
    /\ acked = {}
    /\ sessFiles = << >>
    /\ resume = NoJob

\* No markdown content has been received: parseMarkdownStructure returns
\* null (Step2Analyze.jsx:205).
Init == InitWizard /\ ParserStart(<< >>)

\* Every action with every input.  SpecUpload, SpecAddUpload and SpecWizard
\* below take their actions from this list, each with the part of the
\* program and the inputs its properties are about.
Next ==
    \/ \E b \in Batches : AddFiles(b)
    \/ \E i \in 1..MaxFiles : RemoveFile(i)
    \/ StartUpload
    \/ \E p \in ProgressSteps : UploadProgress(p)
    \/ \E j \in ServerJobs : UploadResponseOk(j)
    \/ \E e \in UploadErrors : UploadResponseFail(e)
    \/ HandleConfirm
    \/ \E s \in 1..3 : TabClick(s)
    \/ StepTimerFires
    \/ PollTick
    \/ \E g \in jobGets, ok \in BOOLEAN, f \in FieldSets : JobGetResponse(g, ok, f)
    \/ Reload
    \/ \E a \in analyses : AnalyzeOk(a)
    \/ \E a \in analyses : AnalyzeFail(a)
    \/ \E a \in analyses, gotJob \in BOOLEAN, resJob \in JobOrNone, f \in FieldSets :
          AnalysisComplete(a, gotJob, resJob, f)
    \/ Step2Retry
    \/ Step2Confirm
    \/ StartNewJob
    \/ \E j \in ServerJobs : OrphanResponseOk(j)
    \/ OrphanResponseFail
    \/ StartGeneration
    \/ \E g \in gens, f \in FieldSets : GenerateJobLoaded(g, f)
    \/ \E g \in gens : GenerateJobFailed(g)
    \/ \E g \in gens, pptx \in BOOLEAN : GenerateOk(g, pptx)
    \/ \E g \in gens : GenerateFail(g)
    \/ Step3StartNewJob
    \/ ParseLine
    \/ Rerender

Spec == Init /\ [][Next]_vars

\* The upload view alone: every Step1Upload action over the whole file
\* universe and every failure kind; the wizard never leaves step 1.
NextUpload ==
    \/ \E b \in Batches : AddFiles(b)
    \/ \E i \in 1..MaxFiles : RemoveFile(i)
    \/ StartUpload
    \/ \E p \in ProgressSteps : UploadProgress(p)
    \/ \E j \in ServerJobs : UploadResponseOk(j)
    \/ \E e \in UploadErrors : UploadResponseFail(e)

SpecUpload == Init /\ [][NextUpload]_vars

\* Add-file, upload and retry actions only: no file is removed.
NextAddUpload ==
    \/ \E b \in Batches : AddFiles(b)
    \/ StartUpload
    \/ \E p \in ProgressSteps : UploadProgress(p)
    \/ \E j \in ServerJobs : UploadResponseOk(j)
    \/ \E e \in UploadErrors : UploadResponseFail(e)

SpecAddUpload == Init /\ [][NextAddUpload]_vars

\* The wizard: navigation, timers, polling, analysis and reloads around
\* uploads of one file at a time, one file per name, one kind of failure.
WizardFiles == { f \in FileUniverse : f.size = 1 }

WizardErrors == { [kind |-> "http", status |-> 500] }

WizardFields == { Fields }

NextWizard ==
    \/ \E f \in WizardFiles : AddFiles(<< f >>)
    \/ StartUpload
    \/ \E j \in ServerJobs : UploadResponseOk(j)
    \/ \E e \in WizardErrors : UploadResponseFail(e)
    \/ HandleConfirm
    \/ \E s \in 1..3 : TabClick(s)
    \/ StepTimerFires
    \/ PollTick
    \/ \E g \in jobGets, ok \in BOOLEAN, f \in WizardFields : JobGetResponse(g, ok, f)
    \/ Reload
    \/ \E a \in analyses : AnalyzeOk(a)
    \/ \E a \in analyses : AnalyzeFail(a)
    \/ \E a \in analyses, gotJob \in BOOLEAN, resJob \in JobOrNone, f \in WizardFields :
          AnalysisComplete(a, gotJob, resJob, f)
    \/ Step2Retry
    \/ Step2Confirm
    \/ StartNewJob
    \/ \E j \in ServerJobs : OrphanResponseOk(j)
    \/ OrphanResponseFail

SpecWizard == Init /\ [][NextWizard]_vars

\* The three requests of the wizard (upload, analyze, generate) and their
\* failures: uploads that time out, a server that keeps the job id an upload
\* asks for, job objects with all fields or with one missing, and every
\* handler of step 3.
GenerateFields == { Fields } \cup { Fields \ {x} : x \in Fields }

GenerateErrors == { [kind |-> "abort", status |-> 0] }

JobKept(req) == IF req # NoJob THEN {req} ELSE FirstUnused

NextGenerate ==
    \/ \E f \in WizardFiles : AddFiles(<< f >>)
    \/ StartUpload
    \/ \E j \in JobKept(up.reqJob) : UploadResponseOk(j)
    \/ \E e \in GenerateErrors : UploadResponseFail(e)
    \/ HandleConfirm
    \/ \E s \in 1..3 : TabClick(s)
    \/ StepTimerFires
    \/ \E g \in jobGets, f \in GenerateFields : JobGetResponse(g, TRUE, f)
    \/ \E a \in analyses : AnalyzeOk(a)
    \/ \E a \in analyses : AnalyzeFail(a)
    \/ \E a \in analyses, f \in GenerateFields : AnalysisComplete(a, TRUE, NoJob, f)
    \/ Step2Retry
    \/ Step2Confirm
    \/ \E j \in JobKept(orphan.reqJob) : OrphanResponseOk(j)
    \/ OrphanResponseFail
    \/ StartGeneration
    \/ \E g \in gens, f \in GenerateFields : GenerateJobLoaded(g, f)
    \/ \E g \in gens : GenerateJobFailed(g)
    \/ \E g \in gens, pptx \in BOOLEAN : GenerateOk(g, pptx)
    \/ \E g \in gens : GenerateFail(g)
    \/ Step3StartNewJob

SpecGenerate == Init /\ [][NextGenerate]_vars

\* The upload view with its Confirm button: every Step1Upload action over
\* the whole file universe, a failing request, and the delayed step change
\* of a confirmation; the server keeps the job id a request carries.
NextConfirm ==
    \/ \E b \in Batches : AddFiles(b)
    \/ \E i \in 1..MaxFiles : RemoveFile(i)
    \/ StartUpload
    \/ \E p \in ProgressSteps : UploadProgress(p)
    \/ \E j \in JobKept(up.reqJob) : UploadResponseOk(j)
    \/ \E e \in WizardErrors : UploadResponseFail(e)
    \/ HandleConfirm
    \/ StepTimerFires

SpecConfirm == Init /\ [][NextConfirm]_vars

\* parseMarkdownStructure applied to every content of up to MaxLines lines
\* over LineUniverse, and to an image entry followed by up to MaxPad plain
\* lines and one metadata line.
MaxLines == 4
MaxPad == 10

LineH1A == << "#", " ", "A" >>
LineH1B == << " ", "#", " ", "B", " " >>
LineH2 == << "#", "#", " ", "C" >>
LineH3 == << " ", "#", "#", "#", " ", "D" >>
LinePath == PathKey \o << " ", "p" >>
LineFilename == FilenameKey \o << " ", "f" >>
LineTitle == << " ", " " >> \o TitleKey \o << " ", "t" >>
LineSize == SizeKey \o << " ", "s" >>
LineOrientation == OrientationKey \o << " ", "o" >>
LineItem == << " ", " ", "-", " ", "x" >>
LineHash == << "#", " " >>
LineText == << "x" >>
LineH2Bare == << "#", "#", " " >>
LineH3Bare == << "#", "#", "#", " " >>
LinePathBare == PathKey \o << " " >>

LineUniverse ==
    { LineH1A, LineH1B, LineH2, LineH3, LinePath, LineFilename, LineTitle, LineItem,
      LineHash, LineText, LineH2Bare, LineH3Bare, LinePathBare }

MetadataLines == { LineFilename, LineTitle, LineSize, LineOrientation }

ShortContents == UNION { [1..n -> LineUniverse] : n \in 1..MaxLines }

PaddedContents ==
    { << LinePath >> \o [i \in 1..k |-> LineText] \o << m >> :
        k \in 0..MaxPad, m \in MetadataLines }

Contents == ShortContents \cup PaddedContents

InitParse == InitWizard /\ \E c \in Contents : ParserStart(c)

NextParse == ParseLine

SpecParse == InitParse /\ [][NextParse]_vars

\* parseMarkdownStructure applied to the same content by successive renders.
NextReparse ==
    \/ ParseLine
    \/ Rerender

SpecReparse == InitParse /\ [][NextReparse]_vars

(* ------------------------------ claims -------------------------------- *)

\* A request of the mounted view's handleUpload invocation is issued by
\* this step: the invocation starts, or its loop moves to the next file.
PostIssued == up'.pc = "sending" /\ (up.pc # "sending" \/ up'.idx # up.idx)

\* The mounted view's handleUpload invocation fails in this step.
InvocationFails == up.pc = "sending" /\ up'.pc = "failed"

\* C1: when an upload request fails, the displayed error after handleUpload
\* is non-empty and is the too-large message for HTTP 413, the timeout
\* message for HTTP 408/504 and for an aborted request, the server-error
\* message for HTTP 500 and the generic message for any other status.
C1_ErrorClassified ==
    [][\A e \in UploadErrors :
          UploadResponseFail(e) =>
              /\ error' # NoError
              /\ error' = IF e.kind = "abort" THEN "Timeout"
                          ELSE IF e.status = 413 THEN "TooLarge"
                          ELSE IF e.status \in {408, 504} THEN "Timeout"
                          ELSE IF e.status = 500 THEN "ServerError"
                          ELSE "Generic"]_vars

\* C2 as stated: when files 1..K-1 of an invocation succeed and file K
\* fails, exactly files 1..K-1 of the invocation are marked uploaded, file K
\* is not, file K's progress is not 100, and the invocation ends at K.
C2_FailureLeavesPrefix ==
    [][InvocationFails =>
          /\ \A i \in 1..Len(up.queue) :
                 (up.queue[i].name \in uploadedFileNames') <=> (i < up.idx)
          /\ ProgressOf(fileProgress', up.queue[up.idx].name) # 100
          /\ up'.idx = up.idx]_vars

\* C2 amended: when file K of an invocation fails and no file is removed,
\* the names marked uploaded are those marked at the call plus the names of
\* files 1..K-1, the failure itself marks nothing and leaves the recorded
\* progress as last reported, the invocation ends at K with isUploading
\* false, and marks are never taken back.
C2_FailureKeepsPrefix ==
    [][/\ InvocationFails =>
            /\ uploadedFileNames' =
                   up.marks0 \cup { up.queue[i].name : i \in 1..(up.idx - 1) }
            /\ uploadedFileNames' = uploadedFileNames
            /\ fileProgress' = fileProgress
            /\ up'.idx = up.idx
            /\ ~isUploading'
       /\ uploadedFileNames \subseteq uploadedFileNames']_vars

\* C2 witness: an invocation over three files has failed at its second.
C2_FailedAtSecondOfThree == up.pc = "failed" /\ up.idx = 2 /\ up.n = 3

\* C3: an upload invocation sends exactly the files of the list that are not
\* marked uploaded, and no request is issued for a file that already
\* received a successful response, over add-file, upload and retry actions.
C3_NoDuplicateUpload ==
    [][/\ (up.pc # "sending" /\ up'.pc = "sending") =>
            \A i \in 1..Len(uploadedFiles) :
                InList(uploadedFiles[i], up'.queue)
                    <=> uploadedFiles[i].name \notin uploadedFileNames
       /\ PostIssued => up'.queue[up'.idx] \notin acked']_vars

\* C3 witness: an invocation is running that was started with files already
\* marked although no invocation has completed: a retry after a partial
\* failure.
C3_RetryAfterPartialFailure ==
    up.pc = "sending" /\ up.marks0 # {} /\ ~uploadResult.set

\* C4: in every reachable state at most one POST /api/upload is in flight.
C4_OneUploadInFlight == ~(up.pc = "sending" /\ orphan.active)

\* The condition C5 names: the list is non-empty, it has more than one file
\* or a directory was extracted, and every file is marked with progress 100.
AllFullyUploaded ==
    /\ Len(uploadedFiles) # 0
    /\ (Len(uploadedFiles) > 1 \/ Len(uploadResult.extracted_dirs) > 0)
    /\ \A i \in 1..Len(uploadedFiles) :
           /\ uploadedFiles[i].name \in uploadedFileNames
           /\ ProgressOf(fileProgress, uploadedFiles[i].name) = 100

\* C5 as stated: Confirm is enabled exactly when the list is non-empty, has
\* more than one file or an extracted directory, and every file is marked
\* uploaded with progress 100.
C5_ConfirmEnabledIff == ~ConfirmDisabled <=> AllFullyUploaded

\* C5 amended: Confirm is enabled exactly when that condition holds and no
\* upload is in progress; it is disabled for a single file without an
\* extracted directory, and enabled for two or more fully uploaded files
\* once no upload is in progress.
C5_ConfirmEnabledIffIdle ==
    /\ ~ConfirmDisabled <=> (AllFullyUploaded /\ ~isUploading)
    /\ (Len(uploadedFiles) = 1 /\ Len(uploadResult.extracted_dirs) = 0) => ConfirmDisabled

\* C5 witness: Confirm is enabled for a list of two or more files.
C5_ConfirmEnabledForTwo == ~ConfirmDisabled /\ Len(uploadedFiles) >= 2

\* C6: in an upload session (until the job id reference is reset with the
\* list) the first response's job id is held and never replaced by another,
\* each request issued carries the held id, a successful response leaves an
\* id held, and the id is written to the persistent key when it is adopted:
\* the key holds it after that step of handleUpload, or, when the invocation
\* completes in that step, the id onUploadSuccess stores after it, that of
\* the invocation's first response.
C6_JobIdAdoptedOnce ==
    [][/\ (currentJobIdRef # NoJob /\ currentJobIdRef' # currentJobIdRef)
              => currentJobIdRef' = NoJob
       /\ (currentJobIdRef = NoJob /\ currentJobIdRef' # NoJob)
              => \/ storage' = currentJobIdRef'
                 \/ (up'.pc = "done" /\ up.acc.set /\ storage' = up.acc.job_id)
       /\ PostIssued => up'.reqJob = currentJobIdRef'
       /\ Len(sessFiles') > Len(sessFiles) => currentJobIdRef' # NoJob]_vars

\* C6 witness: a later request of a session is in flight and carries the
\* held, persisted job id.
C6_LaterRequestCarriesId ==
    /\ up.pc = "sending"
    /\ up.idx >= 2
    /\ up.reqJob # NoJob
    /\ up.reqJob = currentJobIdRef
    /\ storage = up.reqJob

\* C7: after a page load that restored a persisted job id, and before any
\* upload, the wizard is at step 2 or 3 or the tab of step 2 or 3 is enabled.
C7_ResumeAfterReload ==
    resume # NoJob => (currentStep >= 2 \/ TabEnabled(2) \/ TabEnabled(3))

RECURSIVE SumCounts(_)
\* Sum of the counts returned for the files fs.
SumCounts(fs) ==
    IF fs = << >> THEN 0
    ELSE CountOrOne(UploadData(Head(fs), NoJob).count) + SumCounts(Tail(fs))

RECURSIVE ConcatFiles(_)
\* Concatenation of the files fields returned for the files fs.
ConcatFiles(fs) ==
    IF fs = << >> THEN << >>
    ELSE UploadData(Head(fs), NoJob).files \o ConcatFiles(Tail(fs))

RECURSIVE ConcatDirs(_)
\* Concatenation of the extracted_dirs fields returned for the files fs.
ConcatDirs(fs) ==
    IF fs = << >> THEN << >>
    ELSE UploadData(Head(fs), NoJob).extracted_dirs \o ConcatDirs(Tail(fs))

\* C8: whenever no upload is running, uploadResult is the accumulation of
\* the responses for every file uploaded successfully in the session: the
\* sum of their counts, and their files and extracted_dirs concatenated in
\* upload order.
C8_ResultAccumulates ==
    ~isUploading =>
        /\ uploadResult.count = SumCounts(sessFiles)
        /\ uploadResult.files = ConcatFiles(sessFiles)
        /\ uploadResult.extracted_dirs = ConcatDirs(sessFiles)

\* C9: a click on tab 1 leaves currentStep = 1, maxReachedStep = 1, no
\* current job id, no current job and no persisted job id.
C9_StepOneResets ==
    [][TabClick(1) =>
          /\ currentStep' = 1
          /\ maxReachedStep' = 1
          /\ currentJobId' = NoJob
          /\ currentJob' = NoJob
          /\ storage' = NoJob]_vars

\* C9 witness: the wizard is back at step 1, reset, while an analysis
\* started at step 2 is still in flight.
C9_BackAtStepOne ==
    /\ currentStep = 1
    /\ maxReachedStep = 1
    /\ currentJobId = NoJob
    /\ storage = NoJob
    /\ analyses # {}

\* C10: in every reachable state 1 <= currentStep <= maxReachedStep <= 3.
C10_StepWithinReached ==
    /\ 1 <= currentStep
    /\ currentStep <= maxReachedStep
    /\ maxReachedStep <= 3

\* C11: maxReachedStep is raised, and only to the step after the current
\* one, by the Confirm action of the current step and by nothing else.
C11_ForwardOnlyByConfirm ==
    [][maxReachedStep' > maxReachedStep =>
          /\ HandleConfirm \/ Step2Confirm
          /\ maxReachedStep' = currentStep + 1]_vars

\* C12: a click on tab s makes s the current step when s <= maxReachedStep
\* at the click, and changes nothing otherwise.
C12_TabClickAccepted ==
    [][\A s \in 1..3 :
          TabClick(s) => IF s <= maxReachedStep THEN currentStep' = s
                         ELSE UNCHANGED vars]_vars

\* C12 witness: step 3 was entered by a click on its tab while the analysis
\* of the step 2 view was still running.
C12_ClickedToStepThree == currentStep = 3 /\ analyses # {}

\* C14: exactly one polling interval is set, the one of the current job id;
\* every polling status request is issued for the job id current at that
\* moment, so none is issued for a job id that has been replaced or cleared.
C14_PollsCurrentJobOnly ==
    [][/\ intervals' = {currentJobId'}
       /\ \A g \in jobGets' \ jobGets : g.poll => g.job = currentJobId']_vars

\* C14 witness: the job id changed while a polling request for the previous
\* one was in flight, and the interval of the previous job id is cleared.
C14_PreviousJobPollInFlight ==
    /\ \E g \in jobGets : g.poll /\ g.job # currentJobId
    /\ intervals = {currentJobId}

\* A POST /api/generate is issued in this step, for job j.
GenerateIssued(j) ==
    /\ \E g \in gens' : g.kind = "generate" /\ g.job = j
    /\ ~ \E g \in gens : g.kind = "generate" /\ g.job = j

\* C15: a POST /api/generate is issued only for a job id that is available
\* (the jobId prop or the saved one) and after md_path, directory and filename
\* were all found in the job object read; a startGeneration that finds the
\* job id or one of the fields missing sets an error and issues no request.
C15_GenerateOnlyWhenComplete ==
    [][/\ \A j \in JobOrNone :
             GenerateIssued(j) =>
                /\ j # NoJob
                /\ \/ /\ StartGeneration
                      /\ j = step3JobId
                      /\ Fields \subseteq currentJobFields
                   \/ \E g \in gens, f \in GenerateFields :
                         /\ GenerateJobLoaded(g, f)
                         /\ j = g.job
                         /\ Fields \subseteq f
       /\ (StartGeneration /\ (JobIdProp(step3JobId, storage) = NoJob
                                \/ (step3JobId # NoJob
                                    /\ ~(Fields \subseteq currentJobFields))))
             => s3'.error # NoError /\ gens' = gens
       /\ \A g \in gens, f \in GenerateFields :
             (GenerateJobLoaded(g, f) /\ g.live /\ ~(Fields \subseteq f))
                => s3'.error # NoError /\ gens' = gens \ {g}]_vars

\* C15 witness: Retry was clicked with no jobId prop and a saved job id, the
\* job object was read with all fields and the POST was issued for the saved
\* job id.
C15_GenerateForSavedJob ==
    /\ currentStep = 3
    /\ step3JobId = NoJob
    /\ s3.isGenerating
    /\ \E g \in gens : g.kind = "generate" /\ g.live /\ g.job = storage

\* C16, for the Generate view: a Generate view mounted again with the job id
\* it had requested a generation for (that request is still in flight) is
\* fetching the generated file or holds the outcome of a fetch, without a
\* click.
C16_RemountRefetches ==
    (/\ currentStep = 3
     /\ step3JobId # NoJob
     /\ \E g \in gens : ~g.live /\ g.kind = "generate" /\ g.job = step3JobId)
       => s3.isGenerating \/ s3.generateResult \/ s3.error # NoError

\* C13: a failed upload invocation, a timed-out one included, ends with
\* isUploading false, and the failure of an analyze or generate request
\* leaves its view not busy; after a failed upload, analyze or generate
\* request the next request of that kind is issued by Start Upload, by
\* Retry, or by Generate/Retry (or the job lookup such a click started).
C13_NoRequestAfterFailure ==
    [][/\ InvocationFails => ~isUploading'
       /\ \A a \in analyses : (AnalyzeFail(a) /\ a.live) => ~s2'.isAnalyzing
       /\ \A g \in gens : (GenerateFail(g) /\ g.live) => ~s3'.isGenerating
       /\ (up.pc = "failed" /\ PostIssued) => StartUpload
       /\ (/\ currentStep = 2 /\ currentStep' = 2
           /\ s2.error = "AnalysisFailed"
           /\ ~s2.isAnalyzing /\ s2'.isAnalyzing)
             => Step2Retry
       /\ (/\ currentStep = 3 /\ currentStep' = 3
           /\ s3.error = "GenerateFailed"
           /\ \E j \in Jobs : GenerateIssued(j))
             => \/ StartGeneration
                \/ \E g \in gens, f \in GenerateFields : GenerateJobLoaded(g, f)]_vars

\* The number of '#' a trimmed line begins with, and whether a line is a
\* heading of level n: n '#', a blank, and text.
RECURSIVE HashRun(_)
HashRun(s) == IF s # << >> /\ Head(s) = "#" THEN 1 + HashRun(Tail(s)) ELSE 0
IsHeading(line, n) ==
    LET t == Trim(line)
    IN  HashRun(t) = n /\ Len(t) > n + 1 /\ t[n + 1] = Sp
HeadingText(line) ==
    LET t == Trim(line) IN Trim(SubSeq(t, HashRun(t) + 1, Len(t)))

\* The trimmed line the loop of parseMarkdownStructure is at; this step is
\* the iteration for a heading of level n, for an image entry.
ThisLine == Trim(lines[lineIndex + 1])
ParsesHeading(n) == ParseLine /\ IsHeading(lines[lineIndex + 1], n)
ParsesImage == ParseLine /\ StartsWith(ThisLine, PathKey)

\* The open-group pointers by level, the open levels, and the deepest open
\* group below a level (0 when there is none).
Pointer(level) ==
    IF level = 1 THEN currentGroup
    ELSE IF level = 2 THEN currentSubGroup ELSE currentSubSubGroup
OpenLevels == { l \in 1..3 : Pointer(l) # 0 }
DeepestOpenBelow(level) ==
    LET ls == { l \in OpenLevels : l < level }
    IN  IF ls = {} THEN 0 ELSE Pointer(CHOOSE l \in ls : \A m \in ls : m <= l)

\* The pointer of a level after the step.
PointerAfter(level) ==
    IF level = 1 THEN currentGroup'
    ELSE IF level = 2 THEN currentSubGroup' ELSE currentSubSubGroup'

\* C17: the iteration for a heading of level N creates one group named by
\* the heading text, attached to the deepest open group of a level below N
\* (to the root when none is open); afterwards the pointer of level N is the
\* new group, every pointer of a deeper level is null and the pointers of
\* the shallower levels are as before, so that the new group is the deepest
\* open one.
C17_HeadingAttaches ==
    [][\A N \in 1..3 :
          ParsesHeading(N) =>
             LET new == Len(structure.nodes) + 1
             IN  /\ structure'.nodes =
                       Append(structure.nodes,
                              NewGroup(HeadingText(lines[lineIndex + 1]), N,
                                       DeepestOpenBelow(N)))
                 /\ structure'.images = structure.images
                 /\ PointerAfter(N) = new
                 /\ \A l \in 1..3 : l > N => PointerAfter(l) = 0
                 /\ \A l \in 1..3 : l < N => PointerAfter(l) = Pointer(l)]_vars

\* C17 witness: the whole content is parsed, and a level 3 group was
\* attached to a level 1 group because no level 2 group was open.
C17_LevelThreeUnderLevelOne ==
    /\ lines # << >>
    /\ lineIndex = Len(lines)
    /\ \E n \in 1..Len(structure.nodes) :
          /\ structure.nodes[n].level = 3
          /\ structure.nodes[n].parent # 0
          /\ structure.nodes[structure.nodes[n].parent].level = 1

\* The image list of group t, of the root for t = 0.
ImagesOf(st, t) == IF t = 0 THEN st.images ELSE st.nodes[t].images

\* C18: the iteration for an image entry appends one image, with the path of
\* the entry, to the image list of the deepest open group (level 3, else 2,
\* else 1), or to the root image list when no group is open; every other
\* list, the groups and the pointers stay as they are.
C18_ImageToDeepestOpen ==
    [][ParsesImage =>
          LET t == DeepestOpenBelow(4)
          IN  /\ Len(structure'.nodes) = Len(structure.nodes)
              /\ Len(ImagesOf(structure', t)) = Len(ImagesOf(structure, t)) + 1
              /\ SubSeq(ImagesOf(structure', t), 1, Len(ImagesOf(structure, t)))
                    = ImagesOf(structure, t)
              /\ ImagesOf(structure', t)[Len(ImagesOf(structure, t)) + 1].path
                    = After(ThisLine, Len(PathKey))
              /\ \A u \in 0..Len(structure.nodes) :
                    u # t => ImagesOf(structure', u) = ImagesOf(structure, u)
              /\ \A n \in 1..Len(structure.nodes) :
                    /\ structure'.nodes[n].name = structure.nodes[n].name
                    /\ structure'.nodes[n].level = structure.nodes[n].level
                    /\ structure'.nodes[n].parent = structure.nodes[n].parent
              /\ \A l \in 1..3 : PointerAfter(l) = Pointer(l)]_vars

\* C18 witness: the whole content is parsed, a level 3 group inside a level
\* 2 group holds an image, and so does the root list.
C18_ImagesAtRootAndLevelThree ==
    /\ lines # << >>
    /\ lineIndex = Len(lines)
    /\ structure.images # << >>
    /\ \E n \in 1..Len(structure.nodes) :
          /\ structure.nodes[n].level = 3
          /\ structure.nodes[n].images # << >>
          /\ structure.nodes[n].parent # 0
          /\ structure.nodes[structure.nodes[n].parent].level = 2

\* The heading texts of the level 1 headings of a content, in order.
RECURSIVE Level1Texts(_)
Level1Texts(ls) ==
    IF ls = << >> THEN << >>
    ELSE (IF IsHeading(Head(ls), 1) THEN << HeadingText(Head(ls)) >> ELSE << >>)
            \o Level1Texts(Tail(ls))

\* The names of the groups of structure.groups, in order.
RECURSIVE TopLevelNames(_)
TopLevelNames(nodes) ==
    IF nodes = << >> THEN << >>
    ELSE (IF Head(nodes).parent = 0 THEN << Head(nodes).name >> ELSE << >>)
            \o TopLevelNames(Tail(nodes))

\* C19: for a content with N level 1 headings and no level 2 or level 3
\* heading, the parsed structure has exactly N top-level groups, in the
\* order of the headings and named by the heading texts.
C19_OneGroupPerHeading ==
    (/\ lines # << >>
     /\ lineIndex = Len(lines)
     /\ \A i \in 1..Len(lines) : ~IsHeading(lines[i], 2) /\ ~IsHeading(lines[i], 3))
       => /\ TopLevelNames(structure.nodes) = Level1Texts(lines)
          /\ Len(structure.nodes) = Len(Level1Texts(lines))

\* C19 witness: a content with two level 1 headings, a '#' without text and
\* no deeper heading is parsed into two top-level groups.
C19_TwoHeadingsParsed ==
    /\ lineIndex = Len(lines)
    /\ \A i \in 1..Len(lines) : ~IsHeading(lines[i], 2) /\ ~IsHeading(lines[i], 3)
    /\ \E i \in 1..Len(lines) : lines[i] = LineHash
    /\ Len(Level1Texts(lines)) = 2
    /\ Len(structure.nodes) = 2

\* The lines the look-ahead of the image entry at index idx (counted from 0)
\* may read: the lines after it, before the first later line that starts
\* with '-' or '#', and at most LookAheadLines of them.
IsBoundary(line) ==
    LET t == Trim(line) IN t # << >> /\ (Head(t) = "-" \/ Head(t) = "#")
MetadataWindow(ls, idx) ==
    { j \in (idx + 1)..(Len(ls) - 1) :
        /\ j <= idx + LookAheadLines
        /\ \A k \in (idx + 1)..j : ~IsBoundary(ls[k + 1]) }

\* The value of a metadata field: the text of the last line of the window
\* that starts with the key, empty when there is none.
FieldValue(ls, idx, key) ==
    LET js == { j \in MetadataWindow(ls, idx) : StartsWith(Trim(ls[j + 1]), key) }
    IN  IF js = {} THEN << >>
        ELSE LET j == CHOOSE m \in js : \A n \in js : n <= m
             IN  After(Trim(ls[j + 1]), Len(key))

\* C20: the image appended for an entry takes filename, title, size and
\* orientation from the lines of its window only: the lines after '- path:'
\* before the first line starting with '-' or '#', at most 9 of them; a
\* field on a later line is not assigned.
C20_MetadataFromWindow ==
    [][ParsesImage =>
          \E t \in 0..Len(structure.nodes) :
             ImagesOf(structure', t) =
                Append(ImagesOf(structure, t),
                       [path |-> After(ThisLine, Len(PathKey)),
                        filename |-> FieldValue(lines, lineIndex, FilenameKey),
                        title |-> FieldValue(lines, lineIndex, TitleKey),
                        size |-> FieldValue(lines, lineIndex, SizeKey),
                        orientation |-> FieldValue(lines, lineIndex, OrientationKey)])]_vars

\* C20 witness: an image entry was parsed whose content has a metadata line
\* ten lines after it; the image has none of the four fields.
C20_FieldBeyondNineLines ==
    /\ Len(lines) = LookAheadLines + 2
    /\ lines[1] = LinePath
    /\ lines[Len(lines)] \in MetadataLines
    /\ lineIndex >= 1
    /\ Len(structure.images) = 1
    /\ structure.images[1].filename = << >>
    /\ structure.images[1].title = << >>
    /\ structure.images[1].size = << >>
    /\ structure.images[1].orientation = << >>

\* A heading marker followed by no name, an image entry with no value.
MarkerOnly(line) == Trim(line) \in { << "#" >>, Hash2, Hash3 }
PathOnly(line) == Trim(line) = PathKey

\* C21: the iteration for a heading marker without a name creates a group
\* whose name is the empty string, and the iteration for '- path:' without
\* a value appends an image whose path is the empty string.
C21_MalformedStored ==
    [][/\ (ParseLine /\ MarkerOnly(lines[lineIndex + 1])) =>
             /\ Len(structure'.nodes) = Len(structure.nodes) + 1
             /\ structure'.nodes[Len(structure'.nodes)].name = << >>
       /\ (ParseLine /\ PathOnly(lines[lineIndex + 1])) =>
             \E t \in 0..Len(structure.nodes) :
                /\ Len(ImagesOf(structure', t)) = Len(ImagesOf(structure, t)) + 1
                /\ ImagesOf(structure', t)[Len(ImagesOf(structure', t))].path = << >>]_vars

C23_ConfirmSucceeds ==
    [][HandleConfirm =>
          /\ error' = NoError
          /\ currentJobId' # NoJob
          /\ maxReachedStep' >= 2
          /\ stepTimers' >= 1]_vars

\* C24: every file of the list that is treated as uploaded (its name is in
\* uploadedFileNames, which excludes it from the next upload, and it counts
\* for Confirm) has received a successful upload response itself; files of
\* one name and different sizes are told apart.
C24_UploadedVeryFile ==
    \A i \in 1..Len(uploadedFiles) :
        uploadedFiles[i].name \in uploadedFileNames => uploadedFiles[i] \in acked

\* The names of the files in the list.
ListedNames == { uploadedFiles[i].name : i \in 1..Len(uploadedFiles) }

\* C25: in every reachable state the names marked uploaded and the names
\* with a recorded progress are names of files in the list.
C25_MarksWithinList ==
    /\ uploadedFileNames \subseteq ListedNames
    /\ DOMAIN fileProgress \subseteq ListedNames

\* The wizard as a return to step 1 leaves it, and a step that ends this:
\* a successful response or the confirmation of the next upload, or a new
\* page load.
AtStepOneReset == currentStep = 1 /\ maxReachedStep = 1 /\ currentJobId = NoJob
NextUploadStep == HandleConfirm \/ Reload \/ \E j \in Jobs : UploadResponseOk(j)

\* C26: once the wizard is at step 1 with maxReachedStep 1 and no job id,
\* it stays so until a step of the next upload (or a page load): no request
\* or delayed step change begun earlier raises maxReachedStep, sets the job
\* id or leaves step 1.
C26_ResetIsDurable ==
    [][(AtStepOneReset /\ ~NextUploadStep) =>
          /\ maxReachedStep' = 1
          /\ currentJobId' = NoJob
          /\ currentStep' = 1]_vars

\* C27: in every reachable state App's currentJob is null or the status
\* object of the job whose id is currentJobId.
C27_JobOfCurrentId == currentJob = NoJob \/ currentJob = currentJobId

\* C28: whenever no handleUpload invocation is running, the persisted job
\* id and App's currentJobId are the same (both absent or the same id).
C28_StorageAgrees ==
    (up.pc # "sending" /\ ~orphan.active) => storage = currentJobId

\* The Download button is enabled (Step3Generate.jsx:276-282).
DownloadEnabled == currentStep = 3 /\ s3.downloadUrl /\ ~s3.isGenerating

RECURSIVE GroupImages(_)
GroupImages(nodes) ==
    IF nodes = << >> THEN 0 ELSE Len(Head(nodes).images) + GroupImages(Tail(nodes))

\* The lines among the first k that are image entries, that are headings.
PathLines(ls, k) == { i \in 1..k : StartsWith(Trim(ls[i]), PathKey) }
HeadingLines(ls, k) == { i \in 1..k : \E n \in 1..3 : IsHeading(ls[i], n) }

\* A list after a step is the list before it, or that list with one entry
\* appended at its end.
SameOrAppended(after, before) ==
    \/ after = before
    \/ Len(after) = Len(before) + 1 /\ SubSeq(after, 1, Len(before)) = before

\* C30: after every iteration the structure holds as many images (root list
\* and groups of every level together) as there are '- path:' lines among
\* the lines scanned, and as many groups as there are heading lines among
\* them.  The loop scans the lines one by one, the lines the look-ahead of
\* an image entry has read included, and an iteration changes a list only by
\* appending one entry at its end, so that every list is in document order.
C30_EntriesConserved ==
    [][ParseLine =>
          /\ lineIndex' = lineIndex + 1
          /\ Len(structure'.images) + GroupImages(structure'.nodes)
                = Cardinality(PathLines(lines, lineIndex'))
          /\ Len(structure'.nodes) = Cardinality(HeadingLines(lines, lineIndex'))
          /\ SameOrAppended(structure'.images, structure.images)
          /\ Len(structure'.nodes) \in { Len(structure.nodes), Len(structure.nodes) + 1 }
          /\ \A n \in 1..Len(structure.nodes) :
                /\ structure'.nodes[n].name = structure.nodes[n].name
                /\ structure'.nodes[n].level = structure.nodes[n].level
                /\ structure'.nodes[n].parent = structure.nodes[n].parent
                /\ SameOrAppended(structure'.nodes[n].images, structure.nodes[n].images)]_vars

\* C30 witness: a content is parsed in which the look-ahead of the first
\* image entry read a metadata line and stopped at the second image entry,
\* and a heading follows: two images and one group.
C30_LookAheadLinesScanned ==
    /\ Len(lines) = 4
    /\ lineIndex = Len(lines)
    /\ lines[1] = LinePath
    /\ lines[2] \in MetadataLines
    /\ lines[3] = LinePath
    /\ IsHeading(lines[4], 1)
    /\ Len(structure.images) = 2
    /\ structure.images[1].filename # << >> \/ structure.images[1].title # << >>
    /\ Len(structure.nodes) = 1
====
